---- MODULE Spec2Model ----
(***************************************************************************)
(* Model of the bounded-concurrency execution engine of WireQuery          *)
(* (src/src/utils/concurrency.cpp, declarations in wq/concurrency.hpp):    *)
(*   - for_each_index_batched            (specification Spec)              *)
(*   - for_each_index_batched_cancelable (specification Spec)              *)
(*   - ThreadPool                        (specifications SpecPool,         *)
(*                                        SpecPoolLive, SpecPoolDown)      *)
(*   - run_posix_queries, run_rawdns_queries (specification SpecRunner)    *)
(*   - aggregate_times                   (specification SpecAgg)           *)
(* Every thread is a process; a step is one atomic access to shared state  *)
(* (an atomic load or store, a mutex acquire, a critical section).         *)
(***************************************************************************)
EXTENDS Integers, Sequences, FiniteSets, TLC

\* ------------------------------------------------------------------ bounds
MaxTotal == 3          \* largest `total` passed to an executor
MinTotal == 0 - 1      \* smallest `total` (covers total <= 0)
MinConc  == 0 - 1      \* smallest `concurrency` (covers 0 and negative)
MaxConc  == 3          \* largest `concurrency`

Totals        == MinTotal .. MaxTotal
Concurrencies == MinConc .. MaxConc

\* nullptr of std::exception_ptr; a non-null exception_ptr is identified by
\* the index (executor) or task id (pool) of the unit that threw it
NullEx == 0
\* an unlocked std::mutex; a locked one holds the id of its owner
Unlocked == 0

VARIABLES
    \* ---- one call of for_each_index_batched[_cancelable]
    pc,            \* position of the calling thread
    variant,       \* which executor was called: "none", "batched", "cancelable"
    total,         \* argument total
    concurrency,   \* argument concurrency
    cancel,        \* argument cancel is non-null (an external token was passed)
    flag_,         \* Cancellation::flag_ of the caller's token object
    local_cancel,  \* local_cancel of the cancelable executor
    first_ex,      \* first_ex of the cancelable executor
    ex_mtx,        \* ex_mtx: Unlocked or the index of the unit holding it
    next,          \* next (parallel branch)
    batch,         \* batch (parallel branch)
    i,             \* loop counter i of the running for loop
    unit,          \* index -> position of the unit of work with that index
    joined,        \* indices whose std::thread the join loop has joined
    nthreads,      \* number of std::thread objects constructed so far
    \* ---- observations (history of the call, not read by the code)
    preCancelled,  \* the token passed to the call was already cancelled
    order,         \* indices in the order fn was invoked
    finished,      \* indices whose fn call (and handler) have completed
    thrown,        \* indices whose fn threw
    firstLock,     \* index of the unit whose handler acquired ex_mtx first
    cancelCalls,   \* who called Cancellation::cancel() on the unset token:
                   \*   0 = the caller's program, k = fn of unit k
    raised,        \* the failure raised to the caller (NullEx if none)
    \* ---- one ThreadPool and the thread that owns it
    workers,       \* ids of the worker threads (size of Impl::workers)
    q,             \* Impl::q, the ids of the queued tasks, front first
    stop,          \* Impl::stop
    active,        \* Impl::active
    pool_cancel,   \* Impl::cancel (the pool's atomic flag)
    pool_first_ex, \* Impl::first_ex
    mtx,           \* Impl::mtx: Unlocked or the id of the thread holding it
    cv_task,       \* workers blocked in cv_task.wait
    wpc,           \* worker id -> position in worker_loop
    wtask,         \* worker id -> id of the task it holds (0 if none)
    cpc,           \* position of the thread that owns the pool
    tasks,         \* kinds of the tasks passed to submit so far; id = position
    \* ---- observations
    dequeued,      \* task ids in the order workers dequeued them
    completed,     \* ids of the tasks whose call has returned or thrown
    effects,       \* ids of the tasks that performed their side effect
    pthrown,       \* ids of the tasks that threw
    pFirstLock,    \* id of the task whose failure reached the lock first
    cancelCalled,  \* ThreadPool::cancel() was called by the owner
    atCancel,      \* number of tasks submitted before that call
    atStop,        \* ids of the tasks in the queue when stop was set
    dropped,       \* ids of the tasks submit() returned on without a push
    nwaits,        \* number of wait_idle() calls made
    idleReturned,  \* wait_idle() has just returned to the owner
    \* ---- one call of run_posix_queries / run_rawdns_queries
    rpc,           \* position of the caller of the runner
    runner,        \* which runner was called: "none", "posix", "rawdns"
    stop_on_error, \* opt.stop_on_error
    has_on_try,    \* on_try is non-empty
    times,         \* the vector times, indexed from 0
    probed,        \* attempts whose do_one has written its latency
    inCb,          \* attempts whose do_one is inside on_try
    \* ---- observations
    cbLog,         \* attempts in the order on_try was invoked
    cbThrown,      \* attempts whose on_try threw
    rraised,       \* the failure the runner raised to its caller
    \* ---- one call of aggregate_times
    apc,           \* position of the caller of aggregate_times
    agg_times,     \* the argument times
    agg_pctl,      \* the argument pctl
    ag             \* the Aggregation returned

execVars == <<pc, variant, total, concurrency, cancel, flag_, local_cancel,
              first_ex, ex_mtx, next, batch, i, unit, joined, nthreads>>
obsVars  == <<preCancelled, order, finished, thrown, firstLock, cancelCalls, raised>>
poolVars == <<workers, q, stop, active, pool_cancel, pool_first_ex, mtx,
              cv_task, wpc, wtask, cpc, tasks>>
pobsVars == <<dequeued, completed, effects, pthrown, pFirstLock, cancelCalled,
              atCancel, atStop, dropped, nwaits, idleReturned>>
runVars  == <<rpc, runner, stop_on_error, has_on_try, times, probed, inCb,
              cbLog, cbThrown, rraised>>
aggVars  == <<apc, agg_times, agg_pctl, ag>>
vars     == <<execVars, obsVars, poolVars, pobsVars, runVars, aggVars>>

\* ------------------------------------------------------------ pure helpers
Min(a, b) == IF a <= b THEN a ELSE b

Range(s) == { s[k] : k \in DOMAIN s }

Count(s, x) == Cardinality({ k \in DOMAIN s : s[k] = x })

\* variant of IsSequential: `concurrency < 1`
IsSequential_lt(c) == c < 1

\* the `concurrency <= 1` test that selects the sequential branch
IsSequential(c) == c <= 1

\* variant of EarlyReturn: `total < 0`
EarlyReturn_lt(t) == t < 0

\* if (total <= 0) return;
EarlyReturn(t) == t <= 0

\* variant of BatchSize: the batch is not clamped to the remaining indices
BatchSize_noclamp(c, t, n) == c

\* variant of BatchSize: one thread more than `concurrency` per wave
BatchSize_plus(c, t, n) == Min(c + 1, t - (n - 1))

\* const int batch = std::min(concurrency, total - (next - 1));
BatchSize(c, t, n) == Min(c, t - (n - 1))

\* variant of StoreFirst: the failure is not stored
StoreFirst_none(cur, ep) == cur

\* variant of StoreFirst: the slot is overwritten (last writer wins)
StoreFirst_last(cur, ep) == ep

\* variant of StoreFirst: the failure of the lowest index is kept
StoreFirst_lowest(cur, ep) == IF cur = NullEx \/ ep < cur THEN ep ELSE cur

\* if (!first_ex) first_ex = std::move(ep);   (value of first_ex afterwards)
StoreFirst(cur, ep) == IF cur = NullEx THEN ep ELSE cur

\* variant of StoreTrue: the store writes false
StoreTrue_clear(old) == FALSE

\* variant of StoreTrue: the store inverts the flag
StoreTrue_flip(old) == ~old

\* flag_.store(true) / local_cancel.store(true) / cancel.store(true):
\* the value of the flag afterwards
StoreTrue(old) == TRUE

\* variant of flag: the caller's token is ignored
flag_local == local_cancel

\* variant of flag: the two operands of ?: are swapped
flag_swapped == IF cancel THEN local_cancel ELSE flag_

\* const std::atomic<bool>& flag = cancel ? cancel->flag() : local_cancel;
flag == IF cancel THEN flag_ ELSE local_cancel

NoUnits == [x \in {} |-> "start"]

SetUnit(idx, st) == [x \in (DOMAIN unit) \cup {idx} |->
                        IF x = idx THEN st ELSE unit[x]]

\* units of work that have started and not yet finished (inside fn or in the
\* catch handler of safe_call)
InFn == { x \in DOMAIN unit : unit[x] = "fn" }
Running == { x \in DOMAIN unit : unit[x] \in {"fn", "catch", "locked", "setflag"} }

\* the process is alive and the call is in progress
Live == pc \notin {"idle", "returned", "rethrown", "propagated", "terminated"}

\* ---------------------------------------------------------------- initial
\* no executor call has been made; the caller's Cancellation is constructed
ExecInit ==
    /\ pc = "idle"
    /\ variant = "none"
    /\ total = 0
    /\ concurrency = 0
    /\ cancel = FALSE
    /\ flag_ = FALSE
    /\ local_cancel = FALSE
    /\ first_ex = NullEx
    /\ ex_mtx = Unlocked
    /\ next = 0
    /\ batch = 0
    /\ i = 0
    /\ unit = NoUnits
    /\ joined = {}
    /\ nthreads = 0
    /\ preCancelled = FALSE
    /\ order = <<>>
    /\ finished = {}
    /\ thrown = {}
    /\ firstLock = 0
    /\ cancelCalls = {}
    /\ raised = NullEx

\* no ThreadPool exists
NoPool ==
    /\ workers = {}
    /\ q = <<>>
    /\ stop = FALSE
    /\ active = 0
    /\ pool_cancel = FALSE
    /\ pool_first_ex = NullEx
    /\ mtx = Unlocked
    /\ cv_task = {}
    /\ wpc = <<>>
    /\ wtask = <<>>
    /\ cpc = "none"
    /\ tasks = <<>>
    /\ dequeued = <<>>
    /\ completed = {}
    /\ effects = {}
    /\ pthrown = {}
    /\ pFirstLock = 0
    /\ cancelCalled = FALSE
    /\ atCancel = 0
    /\ atStop = {}
    /\ dropped = {}
    /\ nwaits = 0
    /\ idleReturned = FALSE

\* no runner has been called
NoRunner ==
    /\ rpc = "idle"
    /\ runner = "none"
    /\ stop_on_error = FALSE
    /\ has_on_try = FALSE
    /\ times = <<>>
    /\ probed = {}
    /\ inCb = {}
    /\ cbLog = <<>>
    /\ cbThrown = {}
    /\ rraised = NullEx

\* aggregate_times has not been called
NoAgg ==
    /\ apc = "none"
    /\ agg_times = <<>>
    /\ agg_pctl = <<>>
    /\ ag = [min |-> 0, avg |-> 0, max |-> 0, percentiles |-> <<>>]

Init == ExecInit /\ NoPool /\ NoRunner /\ NoAgg

\* ------------------------------------------------- the caller's program
\* Cancellation::cancel() called by the caller's program (before the call,
\* or from another thread during or after it).  A call on a token that is
\* already set stores true over true and is a stuttering step.
ExternalCancel ==
    /\ pc # "terminated"
    /\ ~flag_
    /\ flag_' = TRUE
    /\ cancelCalls' = cancelCalls \cup {0}
    /\ UNCHANGED <<pc, variant, total, concurrency, cancel, local_cancel,
                   first_ex, ex_mtx, next, batch, i, unit, joined, nthreads>>
    /\ UNCHANGED <<preCancelled, order, finished, thrown, firstLock, raised>>
    /\ UNCHANGED <<poolVars, pobsVars, runVars, aggVars>>

\* entry of either executor: the `total <= 0` return and the branch on
\* `concurrency <= 1`
Enter(v, t, c, tok) ==
    /\ pc = "idle"
    /\ variant' = v
    /\ total' = t
    /\ concurrency' = c
    /\ cancel' = tok
    /\ IF EarlyReturn(t)
         THEN pc' = "returned" /\ UNCHANGED <<i, next>>
         ELSE IF IsSequential(c)
                THEN pc' = "seq_loop" /\ i' = 1 /\ UNCHANGED next
                ELSE pc' = "par_loop" /\ next' = 1 /\ UNCHANGED i
    /\ preCancelled' = (tok /\ flag_)
    /\ UNCHANGED <<flag_, local_cancel, first_ex, ex_mtx, batch, unit, joined, nthreads>>
    /\ UNCHANGED <<order, finished, thrown, firstLock, cancelCalls, raised>>
    /\ UNCHANGED <<poolVars, pobsVars>>

\* for_each_index_batched(total, concurrency, fn)
CallBatched ==
    /\ \E t \in Totals, c \in Concurrencies : Enter("batched", t, c, FALSE)
    /\ UNCHANGED <<runVars, aggVars>>

\* for_each_index_batched_cancelable(total, concurrency, fn, cancel)
CallCancelable ==
    /\ \E t \in Totals, c \in Concurrencies, tok \in BOOLEAN :
          Enter("cancelable", t, c, tok)
    /\ UNCHANGED <<runVars, aggVars>>

\* ------------------------------------------------------ sequential branch
\* for (int i = 1; i <= total; ++i) fn(i);                       (batched)
\* for (...) { if (flag.load()) break; safe_call(i); }           (cancelable)
SeqLoop ==
    /\ pc = "seq_loop"
    /\ IF i <= total /\ ~(variant = "cancelable" /\ flag)
         THEN /\ unit' = SetUnit(i, "start")
              /\ pc' = "seq_call"
         ELSE /\ pc' = IF variant = "cancelable" THEN "epilogue" ELSE "returned"
              /\ UNCHANGED unit
    /\ UNCHANGED <<variant, total, concurrency, cancel, flag_, local_cancel,
                   first_ex, ex_mtx, next, batch, i, joined, nthreads>>
    /\ UNCHANGED obsVars
    /\ UNCHANGED <<poolVars, pobsVars, runVars, aggVars>>

\* the call on the caller's thread has returned: ++i
SeqNext ==
    /\ pc = "seq_call"
    /\ unit[i] = "done"
    /\ i' = i + 1
    /\ pc' = "seq_loop"
    /\ UNCHANGED <<variant, total, concurrency, cancel, flag_, local_cancel,
                   first_ex, ex_mtx, next, batch, unit, joined, nthreads>>
    /\ UNCHANGED obsVars
    /\ UNCHANGED <<poolVars, pobsVars, runVars, aggVars>>

\* -------------------------------------------------------- parallel branch
\* while (next <= total [&& !flag.load()]) { const int batch = ...;
ParLoop ==
    /\ pc = "par_loop"
    /\ IF next <= total /\ ~(variant = "cancelable" /\ flag)
         THEN /\ batch' = BatchSize(concurrency, total, next)
              /\ i' = 0
              /\ pc' = "spawn"
         ELSE /\ pc' = IF variant = "cancelable" THEN "epilogue" ELSE "returned"
              /\ UNCHANGED <<batch, i>>
    /\ UNCHANGED <<variant, total, concurrency, cancel, flag_, local_cancel,
                   first_ex, ex_mtx, next, unit, joined, nthreads>>
    /\ UNCHANGED obsVars
    /\ UNCHANGED <<poolVars, pobsVars, runVars, aggVars>>

\* for (int i = 0; i < batch; ++i) threads.emplace_back([&, idx]{...});
Spawn ==
    /\ pc = "spawn"
    /\ IF i < batch
         THEN /\ unit' = SetUnit(next + i, "start")
              /\ nthreads' = nthreads + 1
              /\ i' = i + 1
              /\ pc' = "spawn"
         ELSE /\ pc' = "join"
              /\ UNCHANGED <<unit, nthreads, i>>
    /\ UNCHANGED <<variant, total, concurrency, cancel, flag_, local_cancel,
                   first_ex, ex_mtx, next, batch, joined>>
    /\ UNCHANGED obsVars
    /\ UNCHANGED <<poolVars, pobsVars, runVars, aggVars>>

\* threads of the current wave that the join loop has not joined yet
Unjoined == { x \in DOMAIN unit : x >= next /\ x < next + batch /\ x \notin joined }

\* variant of JoinReady: the wave is not waited for (a detached thread)
JoinReady_nowait(x) == TRUE

\* th.join() returns once the thread has finished
JoinReady(x) == unit[x] = "done"

\* for (auto& th : threads) if (th.joinable()) th.join();  next += batch;
Join ==
    /\ pc = "join"
    /\ IF Unjoined # {}
         THEN LET x == CHOOSE y \in Unjoined : \A z \in Unjoined : y <= z
              IN  /\ JoinReady(x)
                  /\ joined' = joined \cup {x}
                  /\ UNCHANGED <<next, pc>>
         ELSE /\ next' = next + batch
              /\ pc' = "par_loop"
              /\ UNCHANGED joined
    /\ UNCHANGED <<variant, total, concurrency, cancel, flag_, local_cancel,
                   first_ex, ex_mtx, batch, i, unit, nthreads>>
    /\ UNCHANGED obsVars
    /\ UNCHANGED <<poolVars, pobsVars, runVars, aggVars>>

\* ------------------------------------------------------- one unit of work
\* batched: fn(index) is entered.  cancelable: safe_call(idx) reads the flag
\* and either returns at once or enters fn(idx, flag).
UnitStart(x) ==
    /\ Live
    /\ x \in DOMAIN unit /\ unit[x] = "start"
    /\ IF variant = "cancelable" /\ flag
         THEN /\ unit' = SetUnit(x, "done")
              /\ UNCHANGED order
         ELSE /\ unit' = SetUnit(x, "fn")
              /\ order' = Append(order, x)
    /\ UNCHANGED <<pc, variant, total, concurrency, cancel, flag_, local_cancel,
                   first_ex, ex_mtx, next, batch, i, joined, nthreads>>
    /\ UNCHANGED <<preCancelled, finished, thrown, firstLock, cancelCalls, raised>>
    /\ UNCHANGED <<poolVars, pobsVars, runVars, aggVars>>

\* fn returns normally
FnReturn(x) ==
    /\ Live
    /\ x \in DOMAIN unit /\ unit[x] = "fn"
    /\ unit' = SetUnit(x, "done")
    /\ finished' = finished \cup {x}
    /\ UNCHANGED <<pc, variant, total, concurrency, cancel, flag_, local_cancel,
                   first_ex, ex_mtx, next, batch, i, joined, nthreads>>
    /\ UNCHANGED <<preCancelled, order, thrown, firstLock, cancelCalls, raised>>
    /\ UNCHANGED <<poolVars, pobsVars, runVars, aggVars>>

\* fn, after its own side effect, calls cancel() on the caller's token and
\* goes on (the token is reachable from fn only when the caller has one)
FnCancel(x) ==
    /\ Live
    /\ variant = "cancelable" /\ cancel
    /\ x \in DOMAIN unit /\ unit[x] = "fn"
    /\ ~flag_
    /\ flag_' = TRUE
    /\ cancelCalls' = cancelCalls \cup {x}
    /\ UNCHANGED <<pc, variant, total, concurrency, cancel, local_cancel,
                   first_ex, ex_mtx, next, batch, i, unit, joined, nthreads>>
    /\ UNCHANGED <<preCancelled, order, finished, thrown, firstLock, raised>>
    /\ UNCHANGED <<poolVars, pobsVars, runVars, aggVars>>

\* fn throws.  cancelable: caught by safe_call's catch (...).  batched: on
\* the caller's thread the exception leaves for_each_index_batched; in a
\* std::thread it is uncaught and std::terminate ends the process.
FnThrow(x) ==
    /\ Live
    /\ x \in DOMAIN unit /\ unit[x] = "fn"
    /\ thrown' = thrown \cup {x}
    /\ IF variant = "cancelable"
         THEN /\ unit' = SetUnit(x, "catch")
              /\ UNCHANGED <<pc, raised, finished>>
         ELSE /\ unit' = SetUnit(x, "done")
              /\ finished' = finished \cup {x}
              /\ IF pc = "seq_call"
                   THEN pc' = "propagated" /\ raised' = x
                   ELSE pc' = "terminated" /\ UNCHANGED raised
    /\ UNCHANGED <<variant, total, concurrency, cancel, flag_, local_cancel,
                   first_ex, ex_mtx, next, batch, i, joined, nthreads>>
    /\ UNCHANGED <<preCancelled, order, firstLock, cancelCalls>>
    /\ UNCHANGED <<poolVars, pobsVars, runVars, aggVars>>

\* set_first_ex: std::scoped_lock lk(ex_mtx);
HandlerLock(x) ==
    /\ Live
    /\ x \in DOMAIN unit /\ unit[x] = "catch"
    /\ ex_mtx = Unlocked
    /\ ex_mtx' = x
    /\ unit' = SetUnit(x, "locked")
    /\ firstLock' = IF firstLock = 0 THEN x ELSE firstLock
    /\ UNCHANGED <<pc, variant, total, concurrency, cancel, flag_, local_cancel,
                   first_ex, next, batch, i, joined, nthreads>>
    /\ UNCHANGED <<preCancelled, order, finished, thrown, cancelCalls, raised>>
    /\ UNCHANGED <<poolVars, pobsVars, runVars, aggVars>>

\* set_first_ex: if (!first_ex) first_ex = std::move(ep);  then unlock
HandlerStore(x) ==
    /\ Live
    /\ x \in DOMAIN unit /\ unit[x] = "locked"
    /\ ex_mtx = x
    /\ first_ex' = StoreFirst(first_ex, x)
    /\ ex_mtx' = Unlocked
    /\ unit' = SetUnit(x, "setflag")
    /\ UNCHANGED <<pc, variant, total, concurrency, cancel, flag_, local_cancel,
                   next, batch, i, joined, nthreads>>
    /\ UNCHANGED obsVars
    /\ UNCHANGED <<poolVars, pobsVars, runVars, aggVars>>

\* variant of HandlerCancel: the private flag is set also when the caller
\* passed a token
HandlerCancel_local(x) ==
    /\ Live
    /\ x \in DOMAIN unit /\ unit[x] = "setflag"
    /\ local_cancel' = TRUE /\ UNCHANGED flag_
    /\ unit' = SetUnit(x, "done")
    /\ finished' = finished \cup {x}
    /\ UNCHANGED <<pc, variant, total, concurrency, cancel,
                   first_ex, ex_mtx, next, batch, i, joined, nthreads>>
    /\ UNCHANGED <<preCancelled, order, thrown, firstLock, cancelCalls, raised>>
    /\ UNCHANGED <<poolVars, pobsVars, runVars, aggVars>>

\* if (cancel) cancel->cancel(); else local_cancel.store(true);
HandlerCancel(x) ==
    /\ Live
    /\ x \in DOMAIN unit /\ unit[x] = "setflag"
    /\ IF cancel
         THEN flag_' = StoreTrue(flag_) /\ UNCHANGED local_cancel
         ELSE local_cancel' = StoreTrue(local_cancel) /\ UNCHANGED flag_
    /\ unit' = SetUnit(x, "done")
    /\ finished' = finished \cup {x}
    /\ UNCHANGED <<pc, variant, total, concurrency, cancel,
                   first_ex, ex_mtx, next, batch, i, joined, nthreads>>
    /\ UNCHANGED <<preCancelled, order, thrown, firstLock, cancelCalls, raised>>
    /\ UNCHANGED <<poolVars, pobsVars, runVars, aggVars>>

\* variant of Epilogue: the captured failure is not rethrown
Epilogue_noRethrow ==
    /\ pc = "epilogue"
    /\ pc' = "returned" /\ UNCHANGED raised
    /\ UNCHANGED <<variant, total, concurrency, cancel, flag_, local_cancel,
                   first_ex, ex_mtx, next, batch, i, unit, joined, nthreads>>
    /\ UNCHANGED <<preCancelled, order, finished, thrown, firstLock, cancelCalls>>
    /\ UNCHANGED <<poolVars, pobsVars, runVars, aggVars>>

\* if (first_ex) std::rethrow_exception(first_ex);
Epilogue ==
    /\ pc = "epilogue"
    /\ IF first_ex # NullEx
         THEN pc' = "rethrown" /\ raised' = first_ex
         ELSE pc' = "returned" /\ UNCHANGED raised
    /\ UNCHANGED <<variant, total, concurrency, cancel, flag_, local_cancel,
                   first_ex, ex_mtx, next, batch, i, unit, joined, nthreads>>
    /\ UNCHANGED <<preCancelled, order, finished, thrown, firstLock, cancelCalls>>
    /\ UNCHANGED <<poolVars, pobsVars, runVars, aggVars>>

Indices == (MinTotal - 1) .. (MaxTotal + MaxConc + 1)

Next ==
    \/ ExternalCancel
    \/ CallBatched
    \/ CallCancelable
    \/ SeqLoop
    \/ SeqNext
    \/ ParLoop
    \/ Spawn
    \/ Join
    \/ \E x \in Indices : UnitStart(x)
    \/ \E x \in Indices : FnReturn(x)
    \/ \E x \in Indices : FnCancel(x)
    \/ \E x \in Indices : FnThrow(x)
    \/ \E x \in Indices : HandlerLock(x)
    \/ \E x \in Indices : HandlerStore(x)
    \/ \E x \in Indices : HandlerCancel(x)
    \/ Epilogue

Spec == Init /\ [][Next]_vars

\* ======================================================================
\* ThreadPool
\* ======================================================================
MaxWorkers == 2        \* largest `threads` passed to the constructor
MaxTasks   == 3        \* number of submit / submit_cancelable calls made
MaxWaits   == 2        \* number of wait_idle calls made

\* id of the thread that owns the pool (worker ids are 1..MaxWorkers)
Owner == MaxWorkers + 1

\* a plain task that returns, a plain task that throws, and a
\* cancellation-aware task that does its side effect only if the flag is unset
PlainKinds == {"ok", "throw"}
AwareKind  == "aware"

\* Impl::Impl: if (n <= 0) n = 1;
PoolSize(n) == IF n <= 0 THEN 1 ELSE n

\* variant of IdlePred: the active count is not looked at
IdlePred_queueOnly == q = <<>>

\* variant of IdlePred: the queue is not looked at
IdlePred_activeOnly == active = 0

\* the predicate of cv_idle.wait in wait_idle
IdlePred == q = <<>> /\ active = 0

\* the predicate of cv_task.wait in worker_loop
TaskPred == stop \/ q # <<>>

\* variant of ExitPred: a worker leaves as soon as stop is set
ExitPred_stopOnly == stop

\* worker_loop: if (stop && q.empty()) return;
ExitPred == stop /\ q = <<>>

\* ThreadPool::ThreadPool(threads): every worker is at the top of worker_loop
PoolInit ==
    /\ ExecInit
    /\ NoRunner
    /\ NoAgg
    /\ \E n \in 0 .. MaxWorkers :
          /\ workers = 1 .. PoolSize(n)
          /\ wpc = [w \in 1 .. PoolSize(n) |-> "lock"]
          /\ wtask = [w \in 1 .. PoolSize(n) |-> 0]
    /\ q = <<>>
    /\ stop = FALSE
    /\ active = 0
    /\ pool_cancel = FALSE
    /\ pool_first_ex = NullEx
    /\ mtx = Unlocked
    /\ cv_task = {}
    /\ cpc = "ready"
    /\ tasks = <<>>
    /\ dequeued = <<>>
    /\ completed = {}
    /\ effects = {}
    /\ pthrown = {}
    /\ pFirstLock = 0
    /\ cancelCalled = FALSE
    /\ atCancel = 0
    /\ atStop = {}
    /\ dropped = {}
    /\ nwaits = 0
    /\ idleReturned = FALSE

\* ------------------------------------------------------ the owning thread
\* submit(task): std::lock_guard lk(mtx) acquired
Submit ==
    /\ cpc = "ready"
    /\ Len(tasks) < MaxTasks
    /\ mtx = Unlocked
    /\ \E k \in PlainKinds : tasks' = Append(tasks, k)
    /\ mtx' = Owner
    /\ cpc' = "submit_push"
    /\ idleReturned' = FALSE
    /\ UNCHANGED <<workers, q, stop, active, pool_cancel, pool_first_ex,
                   cv_task, wpc, wtask>>
    /\ UNCHANGED <<dequeued, completed, effects, pthrown, pFirstLock,
                   cancelCalled, atCancel, atStop, dropped, nwaits>>
    /\ UNCHANGED <<execVars, obsVars, runVars, aggVars>>

\* submit_cancelable(task): wraps the task and calls submit
SubmitCancelable ==
    /\ cpc = "ready"
    /\ Len(tasks) < MaxTasks
    /\ mtx = Unlocked
    /\ tasks' = Append(tasks, AwareKind)
    /\ mtx' = Owner
    /\ cpc' = "submit_push"
    /\ idleReturned' = FALSE
    /\ UNCHANGED <<workers, q, stop, active, pool_cancel, pool_first_ex,
                   cv_task, wpc, wtask>>
    /\ UNCHANGED <<dequeued, completed, effects, pthrown, pFirstLock,
                   cancelCalled, atCancel, atStop, dropped, nwaits>>
    /\ UNCHANGED <<execVars, obsVars, runVars, aggVars>>

\* variant of Push: the stop flag is not looked at
Push_always(queue, st, id) == Append(queue, id)

\* variant of Push: the task is put at the front of the queue
Push_front(queue, st, id) == IF st THEN queue ELSE <<id>> \o queue

\* submit: if (stop) return; q.push(std::move(task));  (the queue afterwards)
Push(queue, st, id) == IF st THEN queue ELSE Append(queue, id)

\* submit: if (stop) return; q.push(std::move(task));  then unlock
SubmitPush ==
    /\ cpc = "submit_push"
    /\ mtx = Owner
    /\ q' = Push(q, stop, Len(tasks))
    /\ cpc' = IF stop THEN "ready" ELSE "submit_notify"
    /\ dropped' = IF stop THEN dropped \cup {Len(tasks)} ELSE dropped
    /\ mtx' = Unlocked
    /\ UNCHANGED <<workers, stop, active, pool_cancel, pool_first_ex,
                   cv_task, wpc, wtask, tasks>>
    /\ UNCHANGED <<dequeued, completed, effects, pthrown, pFirstLock,
                   cancelCalled, atCancel, atStop, nwaits, idleReturned>>
    /\ UNCHANGED <<execVars, obsVars, runVars, aggVars>>

\* submit: cv_task.notify_one();
SubmitNotify ==
    /\ cpc = "submit_notify"
    /\ IF cv_task = {}
         THEN UNCHANGED <<cv_task, wpc>>
         ELSE \E w \in cv_task :
                 /\ cv_task' = cv_task \ {w}
                 /\ wpc' = [wpc EXCEPT ![w] = "lock"]
    /\ cpc' = "ready"
    /\ UNCHANGED <<workers, q, stop, active, pool_cancel, pool_first_ex,
                   mtx, wtask, tasks>>
    /\ UNCHANGED pobsVars
    /\ UNCHANGED <<execVars, obsVars, runVars, aggVars>>

\* variant of CancelReq: cancel() also empties the queue
CancelReq_purge ==
    /\ cpc = "ready"
    /\ ~cancelCalled
    /\ pool_cancel' = TRUE
    /\ q' = <<>>
    /\ cancelCalled' = TRUE
    /\ atCancel' = Len(tasks)
    /\ idleReturned' = FALSE
    /\ UNCHANGED <<workers, stop, active, pool_first_ex, mtx,
                   cv_task, wpc, wtask, cpc, tasks>>
    /\ UNCHANGED <<dequeued, completed, effects, pthrown, pFirstLock,
                   atStop, dropped, nwaits>>
    /\ UNCHANGED <<execVars, obsVars, runVars, aggVars>>

\* variant of CancelReq: cancel() does not store to the flag
CancelReq_noStore ==
    /\ cpc = "ready"
    /\ ~cancelCalled
    /\ cancelCalled' = TRUE
    /\ atCancel' = Len(tasks)
    /\ idleReturned' = FALSE
    /\ UNCHANGED <<workers, q, stop, active, pool_cancel, pool_first_ex, mtx,
                   cv_task, wpc, wtask, cpc, tasks>>
    /\ UNCHANGED <<dequeued, completed, effects, pthrown, pFirstLock,
                   atStop, dropped, nwaits>>
    /\ UNCHANGED <<execVars, obsVars, runVars, aggVars>>

\* cancel(): cancel.store(true).  A call on a flag that is already set
\* stores true over true and is a stuttering step.
CancelReq ==
    /\ cpc = "ready"
    /\ ~cancelCalled
    /\ pool_cancel' = StoreTrue(pool_cancel)
    /\ cancelCalled' = TRUE
    /\ atCancel' = Len(tasks)
    /\ idleReturned' = FALSE
    /\ UNCHANGED <<workers, q, stop, active, pool_first_ex, mtx,
                   cv_task, wpc, wtask, cpc, tasks>>
    /\ UNCHANGED <<dequeued, completed, effects, pthrown, pFirstLock,
                   atStop, dropped, nwaits>>
    /\ UNCHANGED <<execVars, obsVars, runVars, aggVars>>

\* wait_idle(): std::unique_lock lk(mtx) acquired (first time, or again
\* after cv_idle was notified)
WaitIdle ==
    /\ \/ cpc = "ready" /\ nwaits < MaxWaits /\ nwaits' = nwaits + 1
       \/ cpc = "wait_lock" /\ nwaits' = nwaits
    /\ mtx = Unlocked
    /\ mtx' = Owner
    /\ cpc' = "wait_check"
    /\ idleReturned' = FALSE
    /\ UNCHANGED <<workers, q, stop, active, pool_cancel, pool_first_ex,
                   cv_task, wpc, wtask, tasks>>
    /\ UNCHANGED <<dequeued, completed, effects, pthrown, pFirstLock,
                   cancelCalled, atCancel, atStop, dropped>>
    /\ UNCHANGED <<execVars, obsVars, runVars, aggVars>>

\* wait_idle: cv_idle.wait(lk, pred): return if pred, else unlock and block
WaitCheck ==
    /\ cpc = "wait_check"
    /\ mtx = Owner
    /\ IF IdlePred
         THEN cpc' = "ready" /\ idleReturned' = TRUE
         ELSE cpc' = "wait_blocked" /\ idleReturned' = FALSE
    /\ mtx' = Unlocked
    /\ UNCHANGED <<workers, q, stop, active, pool_cancel, pool_first_ex,
                   cv_task, wpc, wtask, tasks>>
    /\ UNCHANGED <<dequeued, completed, effects, pthrown, pFirstLock,
                   cancelCalled, atCancel, atStop, dropped, nwaits>>
    /\ UNCHANGED <<execVars, obsVars, runVars, aggVars>>

\* ~Impl(): { std::lock_guard lk(mtx); stop = true; }  (lock acquired)
Destroy ==
    /\ cpc = "ready"
    /\ mtx = Unlocked
    /\ mtx' = Owner
    /\ cpc' = "dtor_stop"
    /\ idleReturned' = FALSE
    /\ UNCHANGED <<workers, q, stop, active, pool_cancel, pool_first_ex,
                   cv_task, wpc, wtask, tasks>>
    /\ UNCHANGED <<dequeued, completed, effects, pthrown, pFirstLock,
                   cancelCalled, atCancel, atStop, dropped, nwaits>>
    /\ UNCHANGED <<execVars, obsVars, runVars, aggVars>>

\* ~Impl(): stop = true;  then unlock
DtorStop ==
    /\ cpc = "dtor_stop"
    /\ mtx = Owner
    /\ stop' = TRUE
    /\ mtx' = Unlocked
    /\ cpc' = "dtor_notify"
    /\ atStop' = Range(q)
    /\ UNCHANGED <<workers, q, active, pool_cancel, pool_first_ex,
                   cv_task, wpc, wtask, tasks>>
    /\ UNCHANGED <<dequeued, completed, effects, pthrown, pFirstLock,
                   cancelCalled, atCancel, dropped, nwaits, idleReturned>>
    /\ UNCHANGED <<execVars, obsVars, runVars, aggVars>>

\* ~Impl(): cv_task.notify_all();
DtorNotify ==
    /\ cpc = "dtor_notify"
    /\ cv_task' = {}
    /\ wpc' = [w \in DOMAIN wpc |-> IF w \in cv_task THEN "lock" ELSE wpc[w]]
    /\ cpc' = "dtor_join"
    /\ UNCHANGED <<workers, q, stop, active, pool_cancel, pool_first_ex,
                   mtx, wtask, tasks>>
    /\ UNCHANGED pobsVars
    /\ UNCHANGED <<execVars, obsVars, runVars, aggVars>>

\* variant of AllExited: the join loop does not wait for the threads
AllExited_nowait(ws) == TRUE

\* th.join() has returned for every thread of `workers`: each has left
\* worker_loop
AllExited(ws) == \A w \in ws : wpc[w] = "exited"

\* ~Impl(): for (auto& th : workers) if (th.joinable()) th.join();
DtorJoin ==
    /\ cpc = "dtor_join"
    /\ AllExited(workers)
    /\ cpc' = "destroyed"
    /\ UNCHANGED <<workers, q, stop, active, pool_cancel, pool_first_ex,
                   mtx, cv_task, wpc, wtask, tasks>>
    /\ UNCHANGED pobsVars
    /\ UNCHANGED <<execVars, obsVars, runVars, aggVars>>

\* ------------------------------------------------------------ worker_loop
\* std::unique_lock lk(mtx) at the top of the loop, or the re-acquisition
\* inside cv_task.wait after a notification
WorkerLock(w) ==
    /\ w \in workers /\ wpc[w] = "lock"
    /\ mtx = Unlocked
    /\ mtx' = w
    /\ wpc' = [wpc EXCEPT ![w] = "check"]
    /\ UNCHANGED <<workers, q, stop, active, pool_cancel, pool_first_ex,
                   cv_task, wtask, cpc, tasks>>
    /\ UNCHANGED pobsVars
    /\ UNCHANGED <<execVars, obsVars, runVars, aggVars>>

\* variant of Released: the worker keeps the mutex after the block
Released_held(w) == w

\* worker_loop: the block of the unique_lock ends (or cv_task.wait blocks):
\* the mutex afterwards
Released(w) == Unlocked

\* cv_task.wait(lk, pred); if (stop && q.empty()) return;
\* task = q.front(); q.pop(); ++active;  then unlock
WorkerTake(w) ==
    /\ w \in workers /\ wpc[w] = "check"
    /\ mtx = w
    /\ IF ~TaskPred
         THEN /\ cv_task' = cv_task \cup {w}
              /\ wpc' = [wpc EXCEPT ![w] = "blocked"]
              /\ UNCHANGED <<q, active, wtask, dequeued>>
         ELSE IF ExitPred
                THEN /\ wpc' = [wpc EXCEPT ![w] = "exited"]
                     /\ UNCHANGED <<q, active, wtask, dequeued, cv_task>>
                ELSE /\ wtask' = [wtask EXCEPT ![w] = Head(q)]
                     /\ q' = Tail(q)
                     /\ active' = active + 1
                     /\ dequeued' = Append(dequeued, Head(q))
                     /\ wpc' = [wpc EXCEPT ![w] = "run"]
                     /\ UNCHANGED cv_task
    /\ mtx' = Released(w)
    /\ UNCHANGED <<workers, stop, pool_cancel, pool_first_ex, cpc, tasks>>
    /\ UNCHANGED <<completed, effects, pthrown, pFirstLock, cancelCalled, atCancel, atStop, dropped,
                   nwaits, idleReturned>>
    /\ UNCHANGED <<execVars, obsVars, runVars, aggVars>>

\* a running plain task calls submit(task) or submit_cancelable(task) on
\* the pool that runs it: std::lock_guard lk(mtx) acquired
WorkerSubmit(w) ==
    /\ w \in workers /\ wpc[w] = "run"
    /\ tasks[wtask[w]] = "ok"
    /\ Len(tasks) < MaxTasks
    /\ mtx = Unlocked
    /\ \E k \in {"ok", AwareKind} : tasks' = Append(tasks, k)
    /\ mtx' = w
    /\ wpc' = [wpc EXCEPT ![w] = "t_push"]
    /\ UNCHANGED <<workers, q, stop, active, pool_cancel, pool_first_ex,
                   cv_task, wtask, cpc>>
    /\ UNCHANGED pobsVars
    /\ UNCHANGED <<execVars, obsVars, runVars, aggVars>>

\* submit called by a task: if (stop) return; q.push(std::move(task));
\* then unlock
WorkerSubmitPush(w) ==
    /\ w \in workers /\ wpc[w] = "t_push"
    /\ mtx = w
    /\ q' = Push(q, stop, Len(tasks))
    /\ wpc' = [wpc EXCEPT ![w] = IF stop THEN "run" ELSE "t_notify"]
    /\ dropped' = IF stop THEN dropped \cup {Len(tasks)} ELSE dropped
    /\ mtx' = Unlocked
    /\ UNCHANGED <<workers, stop, active, pool_cancel, pool_first_ex,
                   cv_task, wtask, cpc, tasks>>
    /\ UNCHANGED <<dequeued, completed, effects, pthrown, pFirstLock,
                   cancelCalled, atCancel, atStop, nwaits, idleReturned>>
    /\ UNCHANGED <<execVars, obsVars, runVars, aggVars>>

\* submit called by a task: cv_task.notify_one();  the task goes on
WorkerSubmitNotify(w) ==
    /\ w \in workers /\ wpc[w] = "t_notify"
    /\ IF cv_task = {}
         THEN /\ wpc' = [wpc EXCEPT ![w] = "run"]
              /\ UNCHANGED cv_task
         ELSE \E v \in cv_task :
                 /\ cv_task' = cv_task \ {v}
                 /\ wpc' = [wpc EXCEPT ![w] = "run", ![v] = "lock"]
    /\ UNCHANGED <<workers, q, stop, active, pool_cancel, pool_first_ex,
                   mtx, wtask, cpc, tasks>>
    /\ UNCHANGED pobsVars
    /\ UNCHANGED <<execVars, obsVars, runVars, aggVars>>

\* variant of TaskFlag: the wrapper hands the stop flag to the task
TaskFlag_stop == stop

\* variant of TaskFlag: the wrapper hands the task a flag nobody sets
TaskFlag_unset == FALSE

\* submit_cancelable: [this, t]() { t(cancel); } -- the flag the task sees
TaskFlag == pool_cancel

\* try { task(); }: the task runs to its end; a cancellation-aware task
\* reads the pool's flag and returns at once when it is set
WorkerRun(w) ==
    /\ w \in workers /\ wpc[w] = "run"
    /\ LET t == wtask[w] IN
         /\ completed' = completed \cup {t}
         /\ IF tasks[t] = "throw"
              THEN /\ pthrown' = pthrown \cup {t}
                   /\ wpc' = [wpc EXCEPT ![w] = "catch"]
                   /\ UNCHANGED effects
              ELSE /\ effects' = IF tasks[t] = AwareKind /\ TaskFlag
                                   THEN effects ELSE effects \cup {t}
                   /\ wpc' = [wpc EXCEPT ![w] = "finish"]
                   /\ UNCHANGED pthrown
    /\ UNCHANGED <<workers, q, stop, active, pool_cancel, pool_first_ex, mtx,
                   cv_task, wtask, cpc, tasks>>
    /\ UNCHANGED <<dequeued, pFirstLock, cancelCalled, atCancel, atStop, dropped, nwaits, idleReturned>>
    /\ UNCHANGED <<execVars, obsVars, runVars, aggVars>>

\* catch (...): set_first_exception: std::lock_guard lk(mtx) acquired
WorkerCatchLock(w) ==
    /\ w \in workers /\ wpc[w] = "catch"
    /\ mtx = Unlocked
    /\ mtx' = w
    /\ wpc' = [wpc EXCEPT ![w] = "store"]
    /\ pFirstLock' = IF pFirstLock = 0 THEN wtask[w] ELSE pFirstLock
    /\ UNCHANGED <<workers, q, stop, active, pool_cancel, pool_first_ex,
                   cv_task, wtask, cpc, tasks>>
    /\ UNCHANGED <<dequeued, completed, effects, pthrown, cancelCalled, atCancel, atStop, dropped,
                   nwaits, idleReturned>>
    /\ UNCHANGED <<execVars, obsVars, runVars, aggVars>>

\* set_first_exception: if (!first_ex) first_ex = std::move(ep);  then unlock
WorkerCatchStore(w) ==
    /\ w \in workers /\ wpc[w] = "store"
    /\ mtx = w
    /\ pool_first_ex' = StoreFirst(pool_first_ex, wtask[w])
    /\ mtx' = Unlocked
    /\ wpc' = [wpc EXCEPT ![w] = "cancel_req"]
    /\ UNCHANGED <<workers, q, stop, active, pool_cancel, cv_task, wtask,
                   cpc, tasks>>
    /\ UNCHANGED pobsVars
    /\ UNCHANGED <<execVars, obsVars, runVars, aggVars>>

\* variant of WorkerCancelReq: the failure leaves worker_loop after the
\* handler and ends the worker thread
WorkerCancelReq_die(w) ==
    /\ w \in workers /\ wpc[w] = "cancel_req"
    /\ pool_cancel' = TRUE
    /\ wpc' = [wpc EXCEPT ![w] = "exited"]
    /\ UNCHANGED <<workers, q, stop, active, pool_first_ex, mtx, cv_task,
                   wtask, cpc, tasks>>
    /\ UNCHANGED pobsVars
    /\ UNCHANGED <<execVars, obsVars, runVars, aggVars>>

\* variant of WorkerCancelReq: the handler does not call cancel_req()
WorkerCancelReq_skip(w) ==
    /\ w \in workers /\ wpc[w] = "cancel_req"
    /\ wpc' = [wpc EXCEPT ![w] = "finish"]
    /\ UNCHANGED <<workers, q, stop, active, pool_cancel, pool_first_ex, mtx,
                   cv_task, wtask, cpc, tasks>>
    /\ UNCHANGED pobsVars
    /\ UNCHANGED <<execVars, obsVars, runVars, aggVars>>

\* catch (...): cancel_req();
WorkerCancelReq(w) ==
    /\ w \in workers /\ wpc[w] = "cancel_req"
    /\ pool_cancel' = StoreTrue(pool_cancel)
    /\ wpc' = [wpc EXCEPT ![w] = "finish"]
    /\ UNCHANGED <<workers, q, stop, active, pool_first_ex, mtx, cv_task,
                   wtask, cpc, tasks>>
    /\ UNCHANGED pobsVars
    /\ UNCHANGED <<execVars, obsVars, runVars, aggVars>>

\* after the task: std::lock_guard lk(mtx) acquired
WorkerFinishLock(w) ==
    /\ w \in workers /\ wpc[w] = "finish"
    /\ mtx = Unlocked
    /\ mtx' = w
    /\ wpc' = [wpc EXCEPT ![w] = "dec"]
    /\ UNCHANGED <<workers, q, stop, active, pool_cancel, pool_first_ex,
                   cv_task, wtask, cpc, tasks>>
    /\ UNCHANGED pobsVars
    /\ UNCHANGED <<execVars, obsVars, runVars, aggVars>>

\* variant of NotifyIdle: the last worker never notifies cv_idle
NotifyIdle_never(queue, act) == FALSE

\* worker_loop: if (q.empty() && active == 0) cv_idle.notify_all();
NotifyIdle(queue, act) == queue = <<>> /\ act = 0

\* variant of Decremented: the worker does not decrement the counter
Decremented_keep(a) == a

\* --active;  (active is a size_t: applied to 0 it would wrap around; the
\* model's integer goes below 0 instead)
Decremented(a) == a - 1

\* --active; if (q.empty() && active == 0) cv_idle.notify_all();  then
\* unlock and go round the loop
WorkerDone(w) ==
    /\ w \in workers /\ wpc[w] = "dec"
    /\ mtx = w
    /\ active' = Decremented(active)
    /\ cpc' = IF NotifyIdle(q, Decremented(active)) /\ cpc = "wait_blocked"
                THEN "wait_lock" ELSE cpc
    /\ mtx' = Unlocked
    /\ wpc' = [wpc EXCEPT ![w] = "lock"]
    /\ wtask' = [wtask EXCEPT ![w] = 0]
    /\ UNCHANGED <<workers, q, stop, pool_cancel, pool_first_ex, cv_task, tasks>>
    /\ UNCHANGED pobsVars
    /\ UNCHANGED <<execVars, obsVars, runVars, aggVars>>

PoolNext ==
    \/ Submit
    \/ SubmitCancelable
    \/ SubmitPush
    \/ SubmitNotify
    \/ CancelReq
    \/ WaitIdle
    \/ WaitCheck
    \/ Destroy
    \/ DtorStop
    \/ DtorNotify
    \/ DtorJoin
    \/ \E w \in 1 .. MaxWorkers : WorkerLock(w)
    \/ \E w \in 1 .. MaxWorkers : WorkerTake(w)
    \/ \E w \in 1 .. MaxWorkers : WorkerRun(w)
    \/ \E w \in 1 .. MaxWorkers : WorkerSubmit(w)
    \/ \E w \in 1 .. MaxWorkers : WorkerSubmitPush(w)
    \/ \E w \in 1 .. MaxWorkers : WorkerSubmitNotify(w)
    \/ \E w \in 1 .. MaxWorkers : WorkerCatchLock(w)
    \/ \E w \in 1 .. MaxWorkers : WorkerCatchStore(w)
    \/ \E w \in 1 .. MaxWorkers : WorkerCancelReq(w)
    \/ \E w \in 1 .. MaxWorkers : WorkerFinishLock(w)
    \/ \E w \in 1 .. MaxWorkers : WorkerDone(w)

SpecPool == PoolInit /\ [][PoolNext]_vars

\* ------------------------------ either engine: an executor call or a pool
EngineInit == Init \/ PoolInit

EngineNext ==
    \/ cpc = "none" /\ Next
    \/ cpc # "none" /\ PoolNext

SpecEngine == EngineInit /\ [][EngineNext]_vars

\* ------------------------------------------- a running pool, scheduled fairly
\* wait_idle: the waiter re-acquires the mutex after cv_idle was notified
WaitRelock == cpc = "wait_lock" /\ WaitIdle

\* one step of worker w in worker_loop
WorkerStep(w) ==
    \/ WorkerLock(w)
    \/ WorkerTake(w)
    \/ WorkerRun(w)
    \/ WorkerCatchLock(w)
    \/ WorkerCatchStore(w)
    \/ WorkerCancelReq(w)
    \/ WorkerFinishLock(w)
    \/ WorkerDone(w)

\* the pool while it is alive and its tasks submit nothing themselves; the
\* flag, which neither wait_idle nor the waits of worker_loop read, is set
\* by the handler of a failing task only
PoolNextLive ==
    \/ Submit
    \/ SubmitCancelable
    \/ SubmitPush
    \/ SubmitNotify
    \/ WaitIdle
    \/ WaitCheck
    \/ \E w \in 1 .. MaxWorkers : WorkerStep(w)

\* every thread that can take a step eventually takes one: a started
\* submit or wait_idle goes on, and every worker goes on (so every task
\* ends); when the owner calls submit, cancel or wait_idle is its choice
PoolFairness ==
    /\ WF_vars(SubmitPush)
    /\ WF_vars(SubmitNotify)
    /\ WF_vars(WaitRelock)
    /\ WF_vars(WaitCheck)
    /\ \A w \in 1 .. MaxWorkers : WF_vars(WorkerStep(w))

SpecPoolLive == PoolInit /\ [][PoolNextLive]_vars /\ PoolFairness

\* ------------------------------------- a pool that is used and torn down
\* the pool from construction to the end of its destructor; its owner
\* submits and destroys, and its tasks submit nothing themselves; the flag,
\* which neither the destructor nor the waits of worker_loop read, is set
\* by the handler of a failing task only
PoolNextDown ==
    \/ Submit
    \/ SubmitCancelable
    \/ SubmitPush
    \/ SubmitNotify
    \/ Destroy
    \/ DtorStop
    \/ DtorNotify
    \/ DtorJoin
    \/ \E w \in 1 .. MaxWorkers : WorkerStep(w)

\* a started submit or destructor goes on and every worker goes on (so
\* every task ends); when the owner submits or destroys is its choice
DownFairness ==
    /\ WF_vars(SubmitPush)
    /\ WF_vars(SubmitNotify)
    /\ WF_vars(DtorStop)
    /\ WF_vars(DtorNotify)
    /\ WF_vars(DtorJoin)
    /\ \A w \in 1 .. MaxWorkers : WF_vars(WorkerStep(w))

SpecPoolDown == PoolInit /\ [][PoolNextDown]_vars /\ DownFairness

\* ======================================================================
\* run_posix_queries / run_rawdns_queries
\* ======================================================================
MaxLatency == 1        \* largest latency a probe reports

Latencies == 0 .. MaxLatency
Tries     == 0 .. MaxTotal

\* variant of Swallows: the callback's failure is swallowed under both policies
Swallows_always(soe) == TRUE

\* variant of Swallows: the callback's failure is never swallowed
Swallows_never(soe) == FALSE

\* do_one: if (opt.stop_on_error) on_try(...); else try { on_try(...); }
\* catch (...) {}  -- a failure of on_try is swallowed in the else branch
Swallows(soe) == ~soe

RunnerInit == Init

\* times.assign(opt.tries, 0.0); Cancellation cancel;
\* for_each_index_batched_cancelable(opt.tries, opt.concurrency, do_one, &cancel);
RunnerEnter(r, n, c, soe, cb) ==
    /\ rpc = "idle"
    /\ rpc' = "running"
    /\ runner' = r
    /\ stop_on_error' = soe
    /\ has_on_try' = cb
    /\ times' = [k \in 0 .. (n - 1) |-> 0]
    /\ Enter("cancelable", n, c, TRUE)
    /\ UNCHANGED <<probed, inCb, cbLog, cbThrown, rraised>>
    /\ UNCHANGED aggVars

RunPosixQueries ==
    /\ rpc = "idle"
    /\ \E n \in Tries, c \in Concurrencies, soe \in BOOLEAN, cb \in BOOLEAN :
          RunnerEnter("posix", n, c, soe, cb)

RunRawdnsQueries ==
    /\ rpc = "idle"
    /\ \E n \in Tries, c \in Concurrencies, soe \in BOOLEAN, cb \in BOOLEAN :
          RunnerEnter("rawdns", n, c, soe, cb)

\* variant of Slot: attempt t writes the entry after its own
Slot_next(t) == t

\* times[t - 1] = ar.ms;  -- the entry attempt t writes
Slot(t) == t - 1

\* do_one(t): ar = resolve_*_once(opt); times[t - 1] = ar.ms;
\* if (on_try) on_try(t, ...) is entered, else do_one returns
DoOne(x) ==
    /\ rpc = "running" /\ Live
    /\ x \in DOMAIN unit /\ unit[x] = "fn"
    /\ x \notin probed
    /\ \E ms \in Latencies : times' = [times EXCEPT ![Slot(x)] = ms]
    /\ probed' = probed \cup {x}
    /\ IF has_on_try
         THEN /\ inCb' = inCb \cup {x}
              /\ cbLog' = Append(cbLog, x)
              /\ UNCHANGED <<unit, finished>>
         ELSE /\ unit' = SetUnit(x, "done")
              /\ finished' = finished \cup {x}
              /\ UNCHANGED <<inCb, cbLog>>
    /\ UNCHANGED <<pc, variant, total, concurrency, cancel, flag_, local_cancel,
                   first_ex, ex_mtx, next, batch, i, joined, nthreads>>
    /\ UNCHANGED <<preCancelled, order, thrown, firstLock, cancelCalls, raised>>
    /\ UNCHANGED <<rpc, runner, stop_on_error, has_on_try, cbThrown, rraised>>
    /\ UNCHANGED <<poolVars, pobsVars, aggVars>>

\* on_try returns; do_one returns
CbReturn(x) ==
    /\ rpc = "running" /\ Live
    /\ x \in inCb
    /\ inCb' = inCb \ {x}
    /\ unit' = SetUnit(x, "done")
    /\ finished' = finished \cup {x}
    /\ UNCHANGED <<pc, variant, total, concurrency, cancel, flag_, local_cancel,
                   first_ex, ex_mtx, next, batch, i, joined, nthreads>>
    /\ UNCHANGED <<preCancelled, order, thrown, firstLock, cancelCalls, raised>>
    /\ UNCHANGED <<rpc, runner, stop_on_error, has_on_try, times, probed,
                   cbLog, cbThrown, rraised>>
    /\ UNCHANGED <<poolVars, pobsVars, aggVars>>

\* on_try throws: swallowed by do_one (continue policy), or it leaves do_one
\* and is caught by safe_call's catch (...) (short-circuit policy)
CbThrow(x) ==
    /\ rpc = "running" /\ Live
    /\ x \in inCb
    /\ inCb' = inCb \ {x}
    /\ cbThrown' = cbThrown \cup {x}
    /\ IF Swallows(stop_on_error)
         THEN /\ unit' = SetUnit(x, "done")
              /\ finished' = finished \cup {x}
              /\ UNCHANGED thrown
         ELSE /\ unit' = SetUnit(x, "catch")
              /\ thrown' = thrown \cup {x}
              /\ UNCHANGED finished
    /\ UNCHANGED <<pc, variant, total, concurrency, cancel, flag_, local_cancel,
                   first_ex, ex_mtx, next, batch, i, joined, nthreads>>
    /\ UNCHANGED <<preCancelled, order, firstLock, cancelCalls, raised>>
    /\ UNCHANGED <<rpc, runner, stop_on_error, has_on_try, times, probed,
                   cbLog, rraised>>
    /\ UNCHANGED <<poolVars, pobsVars, aggVars>>

\* return times;  or the failure rethrown by the executor leaves the runner
RunnerReturn ==
    /\ rpc = "running"
    /\ pc \in {"returned", "rethrown"}
    /\ rpc' = IF pc = "rethrown" THEN "raised" ELSE "returned"
    /\ rraised' = raised
    /\ UNCHANGED <<runner, stop_on_error, has_on_try, times, probed, inCb,
                   cbLog, cbThrown>>
    /\ UNCHANGED <<execVars, obsVars, poolVars, pobsVars, aggVars>>

RunnerNext ==
    \/ RunPosixQueries
    \/ RunRawdnsQueries
    \/ SeqLoop
    \/ SeqNext
    \/ ParLoop
    \/ Spawn
    \/ Join
    \/ \E x \in DOMAIN unit : UnitStart(x)
    \/ \E x \in DOMAIN unit : DoOne(x)
    \/ \E x \in DOMAIN unit : CbReturn(x)
    \/ \E x \in DOMAIN unit : CbThrow(x)
    \/ \E x \in DOMAIN unit : HandlerLock(x)
    \/ \E x \in DOMAIN unit : HandlerStore(x)
    \/ \E x \in DOMAIN unit : HandlerCancel(x)
    \/ Epilogue
    \/ RunnerReturn

SpecRunner == RunnerInit /\ [][RunnerNext]_vars

\* ======================================================================
\* aggregate_times
\* ======================================================================
MaxLen       == 3      \* longest latency list
MaxReq       == 2      \* longest percentile request list
MaxTime      == 6      \* largest latency
MantissaBits == 3      \* significand width of the scaled-down double

\* the requested percentiles tried: below 0, above 100, and the values
\* around which the rank changes for lists of up to MaxLen + 1 elements
Pcts == {0 - 10, 0, 1, 25, 26, 33, 34, 50, 51, 66, 67, 75, 76, 100, 150}

RECURSIVE Pow2(_)
Pow2(k) == IF k <= 0 THEN 1 ELSE 2 * Pow2(k - 1)

\* binary exponent of the non-negative rational num / den: the spacing of
\* the doubles around it is Pow2 of it (the unit is the smallest double)
RECURSIVE Exponent(_, _, _)
Exponent(num, den, e) ==
    IF num < den * Pow2(MantissaBits + e) THEN e
    ELSE Exponent(num, den, e + 1)

\* the double nearest to num / den, ties to even (IEEE 754 default rounding)
RoundNearestEven(num, den) ==
    LET u == Pow2(Exponent(num, den, 0))
        d == den * u
        k == num \div d
        r == num - k * d
    IN  IF 2 * r < d THEN k * u
        ELSE IF 2 * r > d THEN (k + 1) * u
        ELSE IF k % 2 = 0 THEN k * u ELSE (k + 1) * u

\* double + double
FAdd(a, b) == RoundNearestEven(a + b, 1)

\* double / static_cast<double>(size_t)
FDiv(a, n) == RoundNearestEven(a, n)

\* the double 1.0, counted in units of the smallest double
Unit == Pow2(MantissaBits)

\* the latencies tried: the doubles 0.0, 1.0, ... up to MaxTime
Values ==
    {v * Unit : v \in {w \in 0 .. MaxTime : RoundNearestEven(w * Unit, 1) = w * Unit}}
TimeLists == UNION {[1 .. n -> Values] : n \in 0 .. MaxLen}
PctLists  == UNION {[1 .. n -> Pcts] : n \in 0 .. MaxReq}

\* variant of ValueInit: the members are left unset
ValueInit_unset ==
    [min |-> 0 - 1, avg |-> 0 - 1, max |-> 0 - 1, percentiles |-> <<>>]

\* Aggregation ag{};
ValueInit == [min |-> 0, avg |-> 0, max |-> 0, percentiles |-> <<>>]

\* std::minmax_element: the smallest element, scanning from the front
RECURSIVE MinElement(_, _)
MinElement(t, k) ==
    IF k = 1 THEN t[1]
    ELSE LET m == MinElement(t, k - 1) IN IF t[k] < m THEN t[k] ELSE m

\* variant of MaxElement: the last element is taken for the largest
MaxElement_last(t, k) == t[k]

\* std::minmax_element: the largest element, scanning from the front
RECURSIVE MaxElement(_, _)
MaxElement(t, k) ==
    IF k = 1 THEN t[1]
    ELSE LET m == MaxElement(t, k - 1) IN IF t[k] < m THEN m ELSE t[k]

\* std::accumulate(times.begin(), times.end(), 0.0): left to right
RECURSIVE Accumulate(_, _)
Accumulate(t, k) ==
    IF k = 0 THEN 0 ELSE FAdd(Accumulate(t, k - 1), t[k])

\* variant of Mean: the sum is not divided
Mean_noDiv(sum, n) == sum

\* accumulate(...) / static_cast<double>(times.size())
Mean(sum, n) == FDiv(sum, n)

\* variant of Insert: v is put in front, whatever its value
Insert_front(v, srt) == <<v>> \o srt

\* v put into the ascending sequence srt
RECURSIVE Insert(_, _)
Insert(v, srt) ==
    IF srt = <<>> THEN <<v>>
    ELSE IF v <= Head(srt) THEN <<v>> \o srt
    ELSE <<Head(srt)>> \o Insert(v, Tail(srt))

\* variant of Sorted: the copy is not sorted
Sorted_none(t) == t

\* std::vector<double> sorted = times; std::ranges::sort(sorted);
RECURSIVE Sorted(_)
Sorted(t) == IF t = <<>> THEN <<>> ELSE Insert(Head(t), Sorted(Tail(t)))

\* std::clamp(v, lo, hi)
Clamp(v, lo, hi) == IF v < lo THEN lo ELSE IF hi < v THEN hi ELSE v

\* variant of Rank: the quotient is rounded down
Rank_floor(p, n) == Clamp((Clamp(p, 0, 100) * n) \div 100, 1, n)

\* pct_value: pc = clamp(p, 0, 100); rank = (pc * n + 100 - 1) / 100;
\* if (rank < 1) rank = 1; if (rank > n) rank = n;   (size_t does not wrap:
\* pc <= 100 and n is a vector's size)
Rank(p, n) == Clamp((Clamp(p, 0, 100) * n + 100 - 1) \div 100, 1, n)

\* pct_value(p)
pct_value(sorted, p) ==
    IF sorted = <<>> THEN 0 ELSE sorted[Rank(p, Len(sorted))]

\* variant of Key: the clamped percentile is stored
Key_clamped(p) == Clamp(p, 0, 100)

\* emplace_back(p, pct_value(p)): the first member of the pair
Key(p) == p

\* Aggregation aggregate_times(times, pctl)
aggregate_times(t, pctl) ==
    IF t = <<>> THEN ValueInit
    ELSE LET sorted == Sorted(t) IN
         [min |-> MinElement(t, Len(t)),
          max |-> MaxElement(t, Len(t)),
          avg |-> Mean(Accumulate(t, Len(t)), Len(t)),
          percentiles |->
              [j \in DOMAIN pctl |-> <<Key(pctl[j]), pct_value(sorted, pctl[j])>>]]

\* a caller about to call aggregate_times with some arguments
AggInit ==
    /\ ExecInit
    /\ NoPool
    /\ NoRunner
    /\ apc = "ready"
    /\ agg_times \in TimeLists
    /\ agg_pctl \in PctLists
    /\ ag = ValueInit

\* the call and its return
AggregateTimes ==
    /\ apc = "ready"
    /\ ag' = aggregate_times(agg_times, agg_pctl)
    /\ apc' = "returned"
    /\ UNCHANGED <<agg_times, agg_pctl>>
    /\ UNCHANGED <<execVars, obsVars, poolVars, pobsVars, runVars>>

AggNext == AggregateTimes

SpecAgg == AggInit /\ [][AggNext]_vars

\* ======================================================================
\* Properties
\* ======================================================================
\* the call has come back to its caller, normally or with a failure
Returned == pc \in {"returned", "rethrown", "propagated"}

\* order is <<1, 2, ..., Len(order)>>
Ascending(s) == \A k \in DOMAIN s : s[k] = k

\* C1: one call of for_each_index_batched with total > 0 invokes fn exactly
\* once for each index 1..total, and never for an index outside 1..total,
\* whatever the concurrency (<= 0, 1, 2..total, > total).
C1_BatchedExactlyOnce ==
    variant = "batched" =>
        /\ \A k \in DOMAIN order :
              order[k] \in 1 .. total /\ Count(order, order[k]) = 1
        /\ (pc = "returned" /\ total > 0) =>
              \A x \in 1 .. total : Count(order, x) = 1

C1_Witness ==
    /\ variant = "batched" /\ pc = "returned"
    /\ total = 3 /\ concurrency = 2
    /\ Len(order) = 3 /\ nthreads = 3

\* C2: when units of for_each_index_batched_cancelable throw, the call
\* raises one failure, the one of the unit whose handler was first to
\* acquire ex_mtx; the failure slot is never overwritten by a later one,
\* and the call does not return normally.
C2_FirstFailureWins ==
    variant = "cancelable" =>
        /\ first_ex \in {NullEx, firstLock}
        /\ pc = "rethrown" => (raised = firstLock /\ raised \in thrown)
        /\ pc = "returned" => (thrown = {} /\ raised = NullEx)

C2_Witness ==
    /\ variant = "cancelable" /\ pc = "rethrown"
    /\ concurrency >= 2
    /\ Cardinality(thrown) >= 2
    /\ raised = firstLock
    /\ \E x \in thrown : x < raised

\* C5: when the caller's token is already cancelled at the call of
\* for_each_index_batched_cancelable, fn is never invoked, no thread is
\* created and the call returns without a failure.
C5_PreCancelled ==
    (variant = "cancelable" /\ preCancelled) =>
        /\ order = <<>>
        /\ unit = NoUnits
        /\ nthreads = 0
        /\ pc \in {"returned", "seq_loop", "par_loop", "epilogue"}
        /\ raised = NullEx

C5_Witness ==
    /\ variant = "cancelable" /\ preCancelled
    /\ pc = "returned"
    /\ total >= 2 /\ concurrency >= 2

\* C6: in sequential mode of the cancelable executor, when unit k is the
\* first to cancel the token (after its own side effect) and no earlier
\* unit threw, exactly the units 1..k are invoked, in that order.
C6_SeqCancelMidway ==
    (variant = "cancelable" /\ concurrency <= 1) =>
        \A k \in cancelCalls \ {0} :
            (thrown \cap (1 .. (k - 1)) = {}) =>
                /\ Len(order) = k
                /\ Ascending(order)

C6_Witness ==
    /\ variant = "cancelable" /\ concurrency <= 1
    /\ pc = "returned"
    /\ total = 3
    /\ cancelCalls = {2}
    /\ order = <<1, 2>>

\* C7: with total <= 0 both executors invoke fn zero times, create no
\* thread, do not touch the caller's token and return at once without a
\* failure, for every concurrency.
C7_TotalNotPositive ==
    (variant # "none" /\ total <= 0) =>
        /\ pc = "returned"
        /\ order = <<>>
        /\ unit = NoUnits
        /\ nthreads = 0
        /\ raised = NullEx
        /\ thrown = {}
        /\ ~local_cancel
        /\ flag_ => cancelCalls = {0}

C7_Witness ==
    /\ variant = "cancelable" /\ cancel
    /\ total = 0 /\ concurrency >= 2
    /\ pc = "returned" /\ ~flag_

\* C8: with concurrency <= 1 (negative, 0 or 1) both executors take the
\* sequential branch: no thread is created, units are invoked in the
\* order 1, 2, ... and a unit is invoked only when every unit before it
\* has returned, so at most one unit runs at a time.
C8_SequentialOrder ==
    (variant # "none" /\ concurrency <= 1) =>
        /\ nthreads = 0
        /\ pc \notin {"par_loop", "spawn", "join", "terminated"}
        /\ Ascending(order)
        /\ DOMAIN unit \subseteq 1 .. total
        /\ \A x \in DOMAIN unit : \A y \in DOMAIN unit :
              x < y => unit[x] = "done"
        /\ Cardinality(Running) <= 1

C8_Witness ==
    /\ variant = "batched" /\ concurrency = 0
    /\ total = 3 /\ order = <<1, 2, 3>>
    /\ unit[3] = "fn"

\* C9: during a call of either executor with concurrency >= 2, the number
\* of units that have started and not finished is at most
\* min(concurrency, total), and so is the number of threads alive.
C9_BoundedParallelism ==
    (Live /\ concurrency >= 2) =>
        /\ Cardinality(Running) <= Min(concurrency, total)
        /\ Cardinality({ x \in DOMAIN unit : unit[x] # "done" })
              <= Min(concurrency, total)

C9_Witness ==
    /\ Live /\ concurrency = 2 /\ total = 3
    /\ Cardinality(Running) = 2

\* C10: either executor returns or rethrows only when every unit it started
\* has finished and every thread it created has ended, also after a
\* cancellation or a failure in the same wave.
C10_ReturnAfterAllFinished ==
    Returned =>
        /\ Running = {}
        /\ Range(order) \subseteq finished
        /\ \A x \in DOMAIN unit : unit[x] = "done"
        /\ ex_mtx = Unlocked

C10_Witness ==
    /\ pc = "rethrown" /\ concurrency >= 2
    /\ thrown # {}
    /\ finished \ thrown # {}
    /\ Len(order) >= 2

\* C11: for_each_index_batched_cancelable ends with a failure exactly when
\* an invoked unit threw; a cancellation of the token by the caller's
\* program, with no unit throwing, makes it stop scheduling and return
\* normally.
C11_RaisesIffThrown ==
    variant = "cancelable" =>
        /\ pc \notin {"propagated", "terminated"}
        /\ thrown \subseteq Range(order)
        /\ pc = "rethrown" => (thrown # {} /\ raised # NullEx)
        /\ pc = "returned" => (thrown = {} /\ raised = NullEx)
        /\ (pc = "returned" /\ total > 0 /\ Len(order) < total)
              => (cancel /\ flag_ /\ cancelCalls # {})

C11_Witness ==
    /\ variant = "cancelable" /\ pc = "returned"
    /\ concurrency = 2 /\ total = 3
    /\ cancelCalls = {0}
    /\ Len(order) = 2

\* the wave a unit belongs to: its index in sequential mode, else the
\* number of the batch of `concurrency` indices it falls in
Wave(x) == IF concurrency <= 1 THEN x ELSE (x - 1) \div concurrency

\* C12: in the cancelable executor a unit that threw has, by the end of its
\* handler, set the token in use (the caller's when given, else the private
\* one); no unit of a later wave (later index in sequential mode) than a
\* unit that threw is ever invoked; the caller's token is still set after
\* the call has come back.
C12_ThrowCancelsLaterWork ==
    variant = "cancelable" =>
        /\ \A x \in thrown : unit[x] = "done" =>
              IF cancel THEN flag_ ELSE local_cancel
        /\ \A x \in thrown : \A y \in Range(order) : Wave(y) <= Wave(x)
        /\ (Returned /\ cancel /\ thrown # {}) => flag_
        /\ ~cancel => (flag_ => cancelCalls = {0})

C12_Witness ==
    /\ variant = "cancelable" /\ pc = "rethrown"
    /\ cancel /\ flag_ /\ cancelCalls = {}
    /\ concurrency = 2 /\ total = 3
    /\ thrown = {1}
    /\ Range(order) = {1, 2}

\* -------------------------------------------------------------- runners
\* C13: under the short-circuit policy and sequential execution, when
\* on_try throws at attempt k the runner raises that failure to its caller
\* and on_try has been invoked for the attempts 1..k in that order, and for
\* no attempt after k.
C13_ShortCircuitStopsAtK ==
    (runner # "none" /\ stop_on_error /\ concurrency <= 1) =>
        /\ \A k \in cbThrown : Len(cbLog) = k /\ Ascending(cbLog)
        /\ rpc = "raised" => (rraised \in cbThrown /\ cbThrown = {rraised})
        /\ rpc = "returned" => (cbThrown = {} /\ rraised = NullEx)

C13_Witness ==
    /\ runner = "posix" /\ stop_on_error /\ concurrency = 1
    /\ rpc = "raised" /\ rraised = 2
    /\ total = 3
    /\ cbLog = <<1, 2>>

\* C14: under the continue policy a failure of on_try is swallowed: the
\* runner never raises, the cancellation token is never set, and when the
\* runner returns on_try has been invoked once for every attempt
\* 1..tries, in ascending order when sequential.
C14_ContinueRunsAll ==
    (runner # "none" /\ ~stop_on_error) =>
        /\ rpc # "raised" /\ pc # "rethrown"
        /\ ~flag_ /\ ~local_cancel
        /\ thrown = {} /\ first_ex = NullEx
        /\ (rpc = "returned" /\ has_on_try) =>
              /\ Len(cbLog) = total
              /\ \A t \in 1 .. total : Count(cbLog, t) = 1
        /\ concurrency <= 1 => Ascending(cbLog)

C14_Witness ==
    /\ runner = "rawdns" /\ ~stop_on_error
    /\ rpc = "returned"
    /\ total = 3 /\ concurrency = 2
    /\ cbThrown = {1, 3}
    /\ Len(cbLog) = 3

\* ---------------------------------------------------------------- pool
\* C3: when wait_idle() returns to the owner of a running pool, every plain
\* task submitted before has been dequeued exactly once and has run to
\* its end, and if no task threw first_exception() is null.
C3_WaitIdleAllDone ==
    idleReturned =>
        /\ \A t \in DOMAIN tasks :
              tasks[t] \in PlainKinds =>
                  /\ Count(dequeued, t) = 1
                  /\ t \in completed
                  /\ (tasks[t] = "ok" => t \in effects)
        /\ pthrown = {} => pool_first_ex = NullEx

C3_Witness ==
    /\ idleReturned
    /\ Cardinality(workers) >= 2
    /\ Len(tasks) >= 3
    /\ \A t \in DOMAIN tasks : tasks[t] = "ok"
    /\ effects = DOMAIN tasks

\* C4: when a task run by the pool has thrown, then once wait_idle()
\* returns first_exception() is non-null and cancel_flag() reads true.
C4_FailureCapturedAfterWait ==
    (idleReturned /\ pthrown # {}) =>
        /\ pool_first_ex # NullEx
        /\ pool_first_ex \in pthrown
        /\ pool_cancel

C4_Witness ==
    /\ idleReturned
    /\ Cardinality(pthrown) >= 2
    /\ \E t \in DOMAIN tasks : tasks[t] = "ok"
    /\ ~cancelCalled
    /\ pool_cancel

\* C15: cancel() does not purge or skip the queue: when a wait_idle() that
\* follows cancel() returns, every plain task submitted to the running
\* pool, before cancel() or after it, has been dequeued exactly once and
\* has run to its end.
C15_CancelKeepsQueue ==
    (idleReturned /\ cancelCalled) =>
        \A t \in DOMAIN tasks :
            tasks[t] \in PlainKinds =>
                /\ t \notin Range(q)
                /\ Count(dequeued, t) = 1
                /\ t \in completed
                /\ (tasks[t] = "ok" => t \in effects)

C15_Witness ==
    /\ idleReturned
    /\ cancelCalled
    /\ atCancel >= 1
    /\ Len(tasks) > atCancel
    /\ \A t \in DOMAIN tasks : tasks[t] = "ok"
    /\ effects = DOMAIN tasks

\* C16: a cancellation-aware task submitted after cancel() was called
\* never performs its side effect, while in a run whose flag was never
\* set every cancellation-aware task has performed it when wait_idle()
\* returns.
C16_AwareAfterCancelNoEffect ==
    /\ \A t \in DOMAIN tasks :
          (tasks[t] = AwareKind /\ cancelCalled /\ t > atCancel) =>
              t \notin effects
    /\ (idleReturned /\ ~pool_cancel) =>
          \A t \in DOMAIN tasks : tasks[t] = AwareKind => t \in effects

C16_Witness ==
    /\ idleReturned
    /\ cancelCalled
    /\ atCancel = 0
    /\ Len(tasks) >= 2
    /\ \A t \in DOMAIN tasks : tasks[t] = AwareKind
    /\ completed = DOMAIN tasks
    /\ effects = {}

\* N cancellation-aware tasks were submitted to a pool of several workers,
\* then cancel() was called, then the one wait_idle() call returned
SubmitCancelWait ==
    /\ idleReturned
    /\ cancelCalled
    /\ nwaits = 1
    /\ Cardinality(workers) >= 2
    /\ Len(tasks) >= 1
    /\ atCancel = Len(tasks)
    /\ \A t \in DOMAIN tasks : tasks[t] = AwareKind

C18_QueuedAtStopDiscarded ==
    atStop \cap completed = {}

\* C18: a task that was in the queue when the destructor set stop is not
\* discarded: it stays queued until a worker dequeues it, and when the
\* destructor has joined the workers the queue is empty and each such
\* task has been dequeued exactly once and has run to its end.
C18_QueuedAtStopDrained ==
    /\ \A t \in atStop : t \in Range(q) \/ Count(dequeued, t) = 1
    /\ cpc = "destroyed" =>
          /\ q = <<>>
          /\ \A t \in atStop : Count(dequeued, t) = 1 /\ t \in completed

C18_Witness ==
    /\ cpc = "destroyed"
    /\ Cardinality(atStop) >= 2

\* C19: a task handed to submit() or submit_cancelable() once stop is set
\* is dropped: it is never in the queue, never dequeued and never run,
\* nothing enters the queue after stop, and the submitting task does not
\* fail.
C19_SubmitAfterStopDropped ==
    /\ dropped # {} => stop
    /\ stop => Range(q) \subseteq atStop
    /\ \A t \in dropped :
          /\ t \notin Range(q)
          /\ t \notin Range(dequeued)
          /\ t \notin completed
          /\ t \notin effects
    /\ \A t \in pthrown : tasks[t] = "throw"

C19_Witness ==
    /\ cpc = "destroyed"
    /\ dropped # {}
    /\ completed = DOMAIN tasks \ dropped
    /\ pool_first_ex = NullEx

\* C20: at the instant wait_idle() returns the queue is empty and the
\* active count is 0: no worker holds or runs a task.
C20_IdleMeansEmptyAndInactive ==
    idleReturned =>
        /\ q = <<>>
        /\ active = 0
        /\ \A w \in workers :
              /\ wpc[w] \in {"lock", "check", "blocked"}
              /\ wtask[w] = 0

C20_Witness ==
    /\ idleReturned
    /\ nwaits = 1
    /\ Len(dequeued) = MaxTasks
    /\ completed = Range(dequeued)
    /\ pthrown # {}
    /\ active = 0

\* the owner is inside a wait_idle() call
InWaitIdle == cpc \in {"wait_check", "wait_blocked", "wait_lock"}

\* C21: under fair scheduling every wait_idle() call eventually returns,
\* and a call on a pool that never received a task does not block.
C21_WaitIdleReturns ==
    /\ InWaitIdle ~> idleReturned
    /\ [](cpc = "wait_blocked" => tasks # <<>>)

C21_Witness ==
    /\ idleReturned
    /\ nwaits = MaxWaits
    /\ Cardinality(workers) >= 2
    /\ Len(tasks) >= 2
    /\ pthrown # {}
    /\ completed = DOMAIN tasks

\* ------------------------------------------------------- aggregate_times
\* least k with b * k >= a, for a >= 0 and b > 0
CeilDiv(a, b) == CHOOSE k \in 0 .. a : b * k >= a /\ b * (k - 1) < a

\* nearest rank of percentile p in a list of n elements
NearestRank(p, n) == Clamp(CeilDiv(Clamp(p, 0, 100) * n, 100), 1, n)

\* the element at 1-based rank r of t in ascending order
ElementAtRank(t, r) ==
    CHOOSE v \in Range(t) :
        /\ Cardinality({k \in DOMAIN t : t[k] < v}) < r
        /\ r <= Cardinality({k \in DOMAIN t : t[k] <= v})

Smallest(t) == CHOOSE v \in Range(t) : \A w \in Range(t) : v <= w
Largest(t)  == CHOOSE v \in Range(t) : \A w \in Range(t) : w <= v

\* the exact sum of the elements of t at the indices in S
RECURSIVE SumOver(_, _)
SumOver(t, S) ==
    IF S = {} THEN 0
    ELSE LET k == CHOOSE x \in S : TRUE IN t[k] + SumOver(t, S \ {k})

RealSum(t) == SumOver(t, DOMAIN t)

\* the rearrangements of t
Rearrangements(t) ==
    {u \in [DOMAIN t -> Range(t)] :
        \A v \in Range(t) : Count(u, v) = Count(t, v)}

AggReturned == apc = "returned"

\* C22: for a non-empty list every requested p gets the element at the
\* nearest rank clamp(ceil(clamp(p,0,100) * n / 100), 1, n) of the list in
\* ascending order.
C22_NearestRankValue ==
    (AggReturned /\ agg_times # <<>>) =>
        \A j \in DOMAIN agg_pctl :
            ag.percentiles[j][2] =
                ElementAtRank(agg_times, NearestRank(agg_pctl[j], Len(agg_times)))

C22_Witness ==
    /\ AggReturned
    /\ agg_times = <<5 * Unit, Unit, 3 * Unit>>
    /\ agg_pctl = <<34, 67>>
    /\ ag.percentiles = <<(<<34, 3 * Unit>>), (<<67, 5 * Unit>>)>>

\* C23: for an empty list min = avg = max = 0 and the percentile results
\* are empty, whatever was requested.
C23_EmptyInput ==
    (AggReturned /\ agg_times = <<>>) =>
        /\ ag.min = 0 /\ ag.avg = 0 /\ ag.max = 0
        /\ ag.percentiles = <<>>

C23_Witness ==
    /\ AggReturned
    /\ agg_times = <<>>
    /\ Len(agg_pctl) = MaxReq
    /\ ag.percentiles = <<>>

\* C24: for a non-empty list the percentile results are as many as the
\* requests, the j-th key is the j-th request verbatim, equal requests get
\* equal values, a request <= 0 gets the smallest element and a request
\* >= 100 the largest.
C24_KeysVerbatim ==
    (AggReturned /\ agg_times # <<>>) =>
        /\ Len(ag.percentiles) = Len(agg_pctl)
        /\ \A j \in DOMAIN agg_pctl :
              /\ ag.percentiles[j][1] = agg_pctl[j]
              /\ agg_pctl[j] <= 0 => ag.percentiles[j][2] = Smallest(agg_times)
              /\ agg_pctl[j] >= 100 => ag.percentiles[j][2] = Largest(agg_times)
              /\ \A k \in DOMAIN agg_pctl :
                    agg_pctl[j] = agg_pctl[k] =>
                        ag.percentiles[j] = ag.percentiles[k]

C24_Witness ==
    /\ AggReturned
    /\ agg_times = <<5 * Unit, 6 * Unit>>
    /\ agg_pctl = <<0 - 10, 150>>
    /\ ag.percentiles = <<(<<0 - 10, 5 * Unit>>), (<<150, 6 * Unit>>)>>

\* C25 as stated: every rearrangement of the list gives the same min, avg,
\* max and percentile results.
C25_SameForEveryOrder ==
    AggReturned =>
        \A u \in Rearrangements(agg_times) : aggregate_times(u, agg_pctl) = ag

\* every partial sum of the elements of t, in any order, is a double
SumsExact(t) ==
    \A S \in SUBSET DOMAIN t :
        RoundNearestEven(SumOver(t, S), 1) = SumOver(t, S)

\* C25: every rearrangement of the list gives the same min, max and
\* percentile results; avg is the same whenever no partial sum is rounded
\* (it is summed in the order given, so rounding can make it differ).
C25_SameUpToSumRounding ==
    AggReturned =>
        \A u \in Rearrangements(agg_times) :
            LET r == aggregate_times(u, agg_pctl) IN
            /\ r.min = ag.min
            /\ r.max = ag.max
            /\ r.percentiles = ag.percentiles
            /\ SumsExact(agg_times) => r.avg = ag.avg

C25_Witness ==
    /\ AggReturned
    /\ Len(agg_times) = MaxLen
    /\ Len(agg_pctl) = MaxReq
    /\ agg_times # Sorted(agg_times)
    /\ SumsExact(agg_times)
    /\ ag.min < ag.avg /\ ag.avg < ag.max

\* C26 as stated: min is the smallest element, max the largest, avg * n
\* is the sum of the elements, and min <= avg <= max.
C26_ExactMean ==
    (AggReturned /\ agg_times # <<>>) =>
        /\ ag.min = Smallest(agg_times)
        /\ ag.max = Largest(agg_times)
        /\ ag.avg * Len(agg_times) = RealSum(agg_times)
        /\ ag.min <= ag.avg /\ ag.avg <= ag.max

\* the sum computed left to right is exact and the mean is a double
MeanExact(t) ==
    /\ Accumulate(t, Len(t)) = RealSum(t)
    /\ RoundNearestEven(RealSum(t), Len(t)) * Len(t) = RealSum(t)

\* C26: min is the smallest element and max the largest; avg is the
\* left-to-right double sum divided by n, so avg * n is the sum and
\* min <= avg <= max whenever that sum is exact and the mean is a double.
C26_MeanUpToRounding ==
    (AggReturned /\ agg_times # <<>>) =>
        /\ ag.min = Smallest(agg_times)
        /\ ag.max = Largest(agg_times)
        /\ MeanExact(agg_times) =>
              /\ ag.avg * Len(agg_times) = RealSum(agg_times)
              /\ ag.min <= ag.avg /\ ag.avg <= ag.max

C26_Witness ==
    /\ AggReturned
    /\ agg_times = <<3 * Unit, Unit, 2 * Unit>>
    /\ ag.min = Unit /\ ag.avg = 2 * Unit /\ ag.max = 3 * Unit

\* ------------------------------------------------------- locks and flags
\* C27: a thread that is inside fn (and so inside the caller's callback),
\* or inside a pool task, holds neither the executor's ex_mtx nor the
\* pool's mtx.
C27_NoLockWhileInvoking ==
    /\ \A x \in DOMAIN unit : unit[x] = "fn" => ex_mtx # x
    /\ \A w \in workers : wpc[w] = "run" => mtx # w
    /\ InFn # {} => (ex_mtx = Unlocked \/ ex_mtx \in Running \ InFn)

C27_Witness ==
    /\ Cardinality({w \in workers : wpc[w] = "run"}) = MaxWorkers
    /\ mtx = Owner
    /\ q # <<>>

\* C28: in parallel mode of both executors a unit of a later wave is
\* spawned only when every unit of the earlier waves has finished and been
\* joined, the units are invoked in ascending wave order, and units that
\* run at the same time belong to the same wave.
C28_WavesDoNotOverlap ==
    (variant \in {"batched", "cancelable"} /\ concurrency >= 2) =>
        /\ \A x, y \in DOMAIN unit :
              Wave(x) < Wave(y) => (unit[x] = "done" /\ x \in joined)
        /\ \A j, k \in DOMAIN order :
              j < k => Wave(order[j]) <= Wave(order[k])
        /\ \A x, y \in Running : Wave(x) = Wave(y)

C28_Witness ==
    /\ variant = "batched"
    /\ concurrency = 2
    /\ total = MaxTotal
    /\ Len(order) = MaxTotal
    /\ order[1] = 2
    /\ pc = "returned"

\* C29: once the pool's first_ex is non-null no step changes it.
C29_PoolFailureWrittenOnce ==
    [][pool_first_ex # NullEx => pool_first_ex' = pool_first_ex]_vars

C29_Witness ==
    /\ idleReturned
    /\ cancelCalled
    /\ Cardinality(pthrown) >= 2
    /\ pool_first_ex # NullEx
    /\ pool_first_ex = pFirstLock
    /\ \E t \in pthrown : t < pool_first_ex
    /\ Len(tasks) = MaxTasks

\* C30: the caller's token, the executor's private flag and the pool's
\* flag start false and no step takes any of them from true to false.
C30_FlagsMonotonic ==
    /\ (~flag_ /\ ~local_cancel /\ ~pool_cancel)
    /\ [][/\ flag_ => flag_'
          /\ local_cancel => local_cancel'
          /\ pool_cancel => pool_cancel']_vars

C30_Witness ==
    /\ pool_cancel
    /\ cancelCalled
    /\ Cardinality(pthrown) >= 2
    /\ \A w \in workers : wpc[w] \in {"lock", "check", "blocked"}
    /\ completed = DOMAIN tasks

\* ------------------------------------------------------ pool: scheduling
\* C31: the pool dequeues in the order of the pushes (task ids count the
\* submit calls in the order they took the mutex): the ids dequeued so far
\* are ascending, each is smaller than every id still queued, and the
\* queue itself is ascending; the order of completion is free.
C31_FifoDequeue ==
    /\ \A j, k \in DOMAIN dequeued : j < k => dequeued[j] < dequeued[k]
    /\ \A a \in Range(q) : \A b \in Range(dequeued) : b < a
    /\ \A j, k \in DOMAIN q : j < k => q[j] < q[k]

C31_Witness ==
    /\ dequeued = <<1, 2, 3>>
    /\ completed = {2, 3}
    /\ 1 \notin completed
    /\ \E w \in workers : wtask[w] = 1 /\ wpc[w] = "run"

\* ------------------------------------------------------- pool: teardown
\* the state of the pool's life cycle
Phase ==
    IF ~stop THEN "Running"
    ELSE IF cpc = "destroyed" THEN "Stopped" ELSE "Draining"

\* C33: the pool goes Running -> Draining -> Stopped and never back (stop,
\* once set, stays set); a worker does not leave while it holds a task;
\* under fair scheduling a destructor that has started returns, and when
\* it has returned every worker thread has left worker_loop, the queue is
\* empty and every task that was dequeued, before stop or after it, has
\* run to its end.
C33_TeardownTerminates ==
    /\ [][/\ stop => stop'
          /\ Phase' # Phase =>
                \/ Phase = "Running" /\ Phase' = "Draining"
                \/ Phase = "Draining" /\ Phase' = "Stopped"]_vars
    /\ [](\A w \in workers : wtask[w] # 0 => wpc[w] # "exited")
    /\ (cpc = "dtor_stop") ~> (cpc = "destroyed")
    /\ [](cpc = "destroyed" =>
            /\ stop
            /\ \A w \in workers : wpc[w] = "exited"
            /\ q = <<>>
            /\ Range(dequeued) \subseteq completed)

C33_Witness ==
    /\ cpc = "destroyed"
    /\ Cardinality(workers) = MaxWorkers
    /\ Cardinality(atStop) >= 1
    /\ \E t \in Range(dequeued) : t \notin atStop
    /\ completed = DOMAIN tasks
    /\ Len(tasks) = MaxTasks

\* --------------------------------------------- pool: submit_cancelable
\* C32: the pool never skips a task enqueued with submit_cancelable: once
\* dequeued it is being invoked or has been invoked, and when wait_idle()
\* or the destructor has returned every such task that was not dropped has
\* been invoked, whether or not cancel() was called or a task failed; the
\* task sees the pool's flag as it is when it runs, so it performs its
\* side effect exactly when the flag is unset at that moment.
C32_AwareInvokedWithLiveFlag ==
    /\ [](\A t \in DOMAIN tasks :
            tasks[t] = AwareKind =>
                /\ t \in Range(dequeued) =>
                      \/ t \in completed
                      \/ \E w \in workers : wtask[w] = t /\ wpc[w] = "run"
                /\ ((idleReturned \/ cpc = "destroyed") /\ t \notin dropped)
                      => t \in completed)
    /\ [][\A t \in completed' \ completed :
              tasks[t] = AwareKind => (t \in effects' <=> ~pool_cancel)]_vars

C32_Witness ==
    /\ cancelCalled
    /\ pthrown = {}
    /\ idleReturned
    /\ atCancel = MaxTasks
    /\ \A t \in DOMAIN tasks : tasks[t] = AwareKind
    /\ completed = DOMAIN tasks
    /\ effects = {1}

\* ------------------------------------------------- runners: latency array
\* C34: from the start of the runner's execution the latency array has
\* the entries 0 .. tries-1 and no other; an entry changes only in the
\* step in which the attempt numbered one more than it stores its latency,
\* and that attempt stores once, so no two attempts write the same entry;
\* the entry of an attempt that has not stored (in particular of one that
\* was never executed after an early cancellation) holds 0.
C34_LatencyArrayDisjoint ==
    /\ [](runner # "none" =>
            /\ DOMAIN times = 0 .. (total - 1)
            /\ Cardinality(DOMAIN times) = total
            /\ probed \subseteq Range(order)
            /\ \A t \in 1 .. total : t \notin probed => times[t - 1] = 0)
    /\ [][runner # "none" =>
            /\ DOMAIN times' = DOMAIN times
            /\ probed \subseteq probed'
            /\ \A k \in DOMAIN times :
                  times'[k] # times[k] => probed' \ probed = {k + 1}]_vars

C34_Witness ==
    /\ rpc = "raised"
    /\ total = 3 /\ concurrency = 2
    /\ probed = {1, 2}
    /\ times[0] = 1 /\ times[1] = 1 /\ times[2] = 0
    /\ Len(order) = 2

\* ------------------------------------------- cancelable executor: waves
\* the indices whose fn was invoked
Invoked == Range(order)

\* C35: in for_each_index_batched_cancelable the invoked indices are closed
\* under earlier waves: when a unit was invoked, every index of every
\* earlier wave was invoked too; so the indices left out when the call
\* has come back are some of one wave and all of the later waves, and
\* indices are left out only if the flag in use was set.
C35_WavePrefixClosed ==
    variant = "cancelable" =>
        /\ \A x \in Invoked : \A y \in 1 .. total :
              Wave(y) < Wave(x) => y \in Invoked
        /\ (Returned /\ Invoked # 1 .. total) => (total <= 0 \/ flag)

C35_Witness ==
    /\ variant = "cancelable" /\ pc = "returned"
    /\ concurrency = 2 /\ total = 3
    /\ Invoked = {1}
    /\ unit[2] = "done"
    /\ 3 \notin DOMAIN unit
    /\ cancelCalls = {0}

\* ------------------------------------------------- failure before flag
\* C36: a handler stores the failure before it sets the flag: whenever a
\* flag of the cancelable executor (the caller's token or the private one)
\* is set and no cancel() call by the caller's program or by fn set it,
\* first_ex is non-null; whenever the pool's flag is set and the owner
\* did not call cancel(), the pool's first_ex is non-null.
C36_FailureStoredBeforeFlag ==
    /\ ((flag_ \/ local_cancel) /\ cancelCalls = {}) =>
          (first_ex # NullEx /\ first_ex \in thrown)
    /\ (pool_cancel /\ ~cancelCalled) =>
          (pool_first_ex # NullEx /\ pool_first_ex \in pthrown)

C36_Witness ==
    /\ pool_cancel
    /\ ~cancelCalled
    /\ pool_first_ex # NullEx
    /\ \E w \in workers : wpc[w] = "cancel_req" /\ wtask[w] # pool_first_ex

\* ------------------------------------------------- pool: active counter
\* the workers between the dequeue (++active) and the decrement that ends
\* their handling of the task
Holding == { w \in workers : wtask[w] # 0 }

\* the workers whose task has been invoked and has not returned or thrown
Executing == { w \in Holding : wtask[w] \notin completed }

\* C37: the active counter equals the number of workers that dequeued a
\* task and have not yet decremented the counter for it (a worker whose
\* task has ended counts until it has taken the mutex again), so it is at
\* least the number of tasks being executed and lies in 0 .. number of
\* workers; the decrement is never applied to 0; no task is dequeued
\* twice or held by two workers; the tasks dequeued and not yet ended are
\* at most as many as the workers.
C37_ActiveCountsHolders ==
    /\ active = Cardinality(Holding)
    /\ Holding = { w \in workers : wpc[w] \notin {"lock", "check", "blocked", "exited"} }
    /\ 0 <= active /\ active <= Cardinality(workers)
    /\ \A w \in workers : wpc[w] = "dec" => active >= 1
    /\ \A t \in DOMAIN tasks : Count(dequeued, t) <= 1
    /\ \A v, w \in Holding : wtask[v] = wtask[w] => v = w
    /\ Range(dequeued) \ completed = { wtask[w] : w \in Executing }
    /\ Cardinality(Executing) <= active

C37_Witness ==
    /\ Cardinality(workers) = MaxWorkers
    /\ active = MaxWorkers
    /\ Cardinality(Executing) = 1
    /\ \E w \in workers : wpc[w] = "finish"
    /\ q # <<>>
    /\ mtx = Owner

\* ----------------------------------------------- pool: failing tasks
\* C38: in a running pool no worker thread ends, whatever its tasks do:
\* after a task threw, its worker stores the failure, decrements the
\* counter and dequeues again; under fair scheduling every task in the
\* queue, pushed before or after the failing one, is executed, and no
\* task is dequeued twice.
C38_WorkerSurvivesThrow ==
    /\ [](\A w \in workers : wpc[w] # "exited")
    /\ [](\A t \in DOMAIN tasks : Count(dequeued, t) <= 1)
    /\ [](pthrown \subseteq completed)
    /\ \A t \in 1 .. MaxTasks : (t \in Range(q)) ~> (t \in completed)
    /\ \A w \in 1 .. MaxWorkers :
          (w \in workers /\ wpc[w] = "catch")
              ~> (w \in workers /\ wpc[w] = "lock" /\ wtask[w] = 0)

C38_Witness ==
    /\ Cardinality(workers) = 1
    /\ tasks = <<"ok", "throw", "ok">>
    /\ dequeued = <<1, 2, 3>>
    /\ completed = {1, 2, 3}
    /\ effects = {1, 3}
    /\ pool_first_ex = 2
    /\ idleReturned

\* ------------------------------------------ aggregate_times: percentiles
\* C39: for a non-empty list every percentile value returned is an element
\* of the list and lies between the returned min and max; a request
\* p <= 0 gets min and a request p >= 100 gets max.
C39_PercentileWithinInput ==
    (AggReturned /\ agg_times # <<>>) =>
        /\ ag.min = Smallest(agg_times) /\ ag.max = Largest(agg_times)
        /\ \A j \in DOMAIN agg_pctl :
              /\ ag.percentiles[j][2] \in Range(agg_times)
              /\ ag.min <= ag.percentiles[j][2]
              /\ ag.percentiles[j][2] <= ag.max
              /\ agg_pctl[j] <= 0 => ag.percentiles[j][2] = ag.min
              /\ agg_pctl[j] >= 100 => ag.percentiles[j][2] = ag.max

C39_Witness ==
    /\ AggReturned
    /\ agg_times = <<5 * Unit, Unit, 3 * Unit>>
    /\ agg_pctl = <<150, 0 - 10>>
    /\ ag.percentiles = <<(<<150, 5 * Unit>>), (<<0 - 10, Unit>>)>>

\* C40: for a non-empty list and any two requests of one call, also
\* outside 0..100, the smaller request does not get the larger value.
C40_MonotoneInPercentile ==
    (AggReturned /\ agg_times # <<>>) =>
        \A j, k \in DOMAIN agg_pctl :
            agg_pctl[j] <= agg_pctl[k] =>
                ag.percentiles[j][2] <= ag.percentiles[k][2]

C40_Witness ==
    /\ AggReturned
    /\ agg_times = <<6 * Unit, 2 * Unit, 4 * Unit>>
    /\ agg_pctl = <<51, 0 - 10>>
    /\ ag.percentiles = <<(<<51, 4 * Unit>>), (<<0 - 10, 2 * Unit>>)>>

====
